---- MODULE Spec2Model ----
(***************************************************************************)
(* Interval Tree Clocks (crate itc): the ownership tree IdTree, the event  *)
(* tree EventTree, the Stamp algebra (fork, peek, event, join, leq) and    *)
(* the serde mirror types of src/serde.rs.                                 *)
(*                                                                         *)
(* Trees are records.  IdTree::Leaf{i} is [i |-> b], IdTree::Node is       *)
(* [left |-> l, right |-> r]; EventTree::Leaf{n} is [n |-> k] and          *)
(* EventTree::Node is [n |-> k, left |-> l, right |-> r].  A call that     *)
(* reaches unreachable!() yields the value Panic, which every caller       *)
(* propagates (a Rust panic unwinds through all frames).                   *)
(***************************************************************************)
EXTENDS Integers, FiniteSets, Sequences, TLC

VARIABLES live, made, reuses, nev, fault, inp, op, out

vars == <<live, made, reuses, nev, fault, inp, op, out>>

runVars == <<live, made, reuses, nev, fault>>

fnVars == <<inp, op, out>>

(***************************************************************************)
(* Bounds of the model.                                                    *)
(***************************************************************************)
MaxEvents == 4

MaxMade == 7

MaxReuse == 1

MaxForkNodes == 3

IdNodes == 3

MaxWeight == 5

PairIdNodes == 1

PairWeight == 4

TripleWeight == 3

MaxJsonSize == 4

MaxJsonNum == 2

OrderWeight == 5

JoinWeight == 4

(***************************************************************************)
(* Panics.                                                                 *)
(***************************************************************************)
Panic == [panic |-> TRUE]

IsPanic(v) == v = Panic

(***************************************************************************)
(* IdTree constructors.                                                    *)
(***************************************************************************)
IdLeaf(b) == [i |-> b]

IdZero == IdLeaf(FALSE)

IdOne == IdLeaf(TRUE)

IdNode(l, r) == [left |-> l, right |-> r]

IsIdLeaf(t) == DOMAIN t = {"i"}

IsIdNode(t) == DOMAIN t = {"left", "right"}

(***************************************************************************)
(* EventTree constructors and helpers.                                     *)
(***************************************************************************)
EvLeaf(k) == [n |-> k]

EvZero == EvLeaf(0)

EvNode(k, l, r) == [n |-> k, left |-> l, right |-> r]

IsEvLeaf(t) == DOMAIN t = {"n"}

IsEvNode(t) == DOMAIN t = {"n", "left", "right"}

cmp_max(a, b) == IF a >= b THEN a ELSE b

cmp_min(a, b) == IF a <= b THEN a ELSE b

lift(t, m) == IF IsEvLeaf(t) THEN EvLeaf(t.n + m) ELSE EvNode(t.n + m, t.left, t.right)

sink(t, m) == IF IsEvLeaf(t) THEN EvLeaf(t.n - m) ELSE EvNode(t.n - m, t.left, t.right)

RECURSIVE EventTree_min(_)
EventTree_min(t) ==
  IF IsEvLeaf(t) THEN t.n
  ELSE t.n + cmp_min(EventTree_min(t.left), EventTree_min(t.right))

RECURSIVE EventTree_max(_)
EventTree_max(t) ==
  IF IsEvLeaf(t) THEN t.n
  ELSE t.n + cmp_max(EventTree_max(t.left), EventTree_max(t.right))

(***************************************************************************)
(* Normalisable for IdTree and for EventTree.                              *)
(***************************************************************************)
RECURSIVE IdTree_norm(_)
IdTree_norm(t) ==
  IF IsIdLeaf(t) THEN t
  ELSE LET norm_left == IdTree_norm(t.left)
           norm_right == IdTree_norm(t.right)
       IN IF IsIdLeaf(norm_left) /\ IsIdLeaf(norm_right) /\ norm_left.i = norm_right.i
          THEN norm_left
          ELSE IdNode(norm_left, norm_right)

RECURSIVE EventTree_norm_keep_base(_)
EventTree_norm_keep_base(t) ==
  IF IsEvLeaf(t) THEN t
  ELSE LET norm_left == EventTree_norm_keep_base(t.left)
           norm_right == EventTree_norm_keep_base(t.right)
       IN IF IsEvLeaf(norm_left) /\ IsEvLeaf(norm_right) /\ norm_left.n = norm_right.n
          THEN EvLeaf(t.n + norm_left.n)
          ELSE LET m == cmp_min(norm_left.n, norm_right.n)
               IN EvNode(t.n, sink(norm_left, m), sink(norm_right, m))

RECURSIVE EventTree_norm(_)
EventTree_norm(t) ==
  IF IsEvLeaf(t) THEN t
  ELSE LET norm_left == EventTree_norm(t.left)
           norm_right == EventTree_norm(t.right)
       IN IF IsEvLeaf(norm_left) /\ IsEvLeaf(norm_right) /\ norm_left.n = norm_right.n
          THEN EvLeaf(t.n + norm_left.n)
          ELSE LET m == cmp_min(norm_left.n, norm_right.n)
               IN EvNode(t.n + m, sink(norm_left, m), sink(norm_right, m))

(***************************************************************************)
(* EventTree::join.                                                        *)
(***************************************************************************)
RECURSIVE EventTree_join_no_lift(_, _)
EventTree_join_no_lift(a, b) ==
  IF IsEvLeaf(a)
  THEN IF IsEvLeaf(b)
       THEN EvLeaf(cmp_max(a.n, b.n))
       ELSE EventTree_join_no_lift(EvNode(a.n, EvZero, EvZero), b)
  ELSE IF IsEvLeaf(b)
       THEN EventTree_join_no_lift(a, EvNode(b.n, EvZero, EvZero))
       ELSE IF a.n > b.n
            THEN EventTree_join_no_lift(b, a)
            ELSE LET new_left == EventTree_join_no_lift(a.left, b.left)
                     new_right == EventTree_join_no_lift(a.right, b.right)
                 IN EventTree_norm(EvNode(a.n, new_left, new_right))

RECURSIVE EventTree_join(_, _)
EventTree_join(a, b) ==
  IF IsEvLeaf(a)
  THEN IF IsEvLeaf(b)
       THEN EvLeaf(cmp_max(a.n, b.n))
       ELSE EventTree_join(EvNode(a.n, EvZero, EvZero), b)
  ELSE IF IsEvLeaf(b)
       THEN EventTree_join(a, EvNode(b.n, EvZero, EvZero))
       ELSE IF a.n > b.n
            THEN EventTree_join(b, a)
            ELSE LET new_left == EventTree_join(a.left, lift(b.left, b.n - a.n))
                     new_right == EventTree_join(a.right, lift(b.right, b.n - a.n))
                 IN EventTree_norm(EvNode(a.n, new_left, new_right))

(***************************************************************************)
(* LessThanOrEqual for EventTree.                                          *)
(***************************************************************************)
RECURSIVE EventTree_leq_base_only(_, _)
EventTree_leq_base_only(a, b) ==
  IF IsEvLeaf(a)
  THEN a.n <= b.n
  ELSE IF IsEvLeaf(b)
       THEN a.n <= b.n
       ELSE /\ a.n <= b.n
            /\ EventTree_leq_base_only(lift(a.left, a.n), lift(b.left, b.n))
            /\ EventTree_leq_base_only(lift(a.right, a.n), lift(b.right, b.n))

RECURSIVE EventTree_leq(_, _)
EventTree_leq(a, b) ==
  IF IsEvLeaf(a)
  THEN a.n <= b.n
  ELSE IF IsEvLeaf(b)
       THEN /\ a.n <= b.n
            /\ EventTree_leq(lift(a.left, a.n), EvLeaf(b.n))
            /\ EventTree_leq(lift(a.right, a.n), EvLeaf(b.n))
       ELSE /\ a.n <= b.n
            /\ EventTree_leq(lift(a.left, a.n), lift(b.left, b.n))
            /\ EventTree_leq(lift(a.right, a.n), lift(b.right, b.n))

(***************************************************************************)
(* Split and Sum for IdTree.                                               *)
(***************************************************************************)
RECURSIVE IdTree_split_drop_right(_)
IdTree_split_drop_right(t) ==
  IF IsIdLeaf(t)
  THEN IF ~t.i
       THEN IdNode(IdZero, IdZero)
       ELSE IdNode(IdNode(IdOne, IdZero), IdZero)
  ELSE IF t.left = IdZero
       THEN LET s == IdTree_split_drop_right(t.right)
            IN IF IsPanic(s) \/ ~IsIdNode(s) THEN Panic
               ELSE IdNode(IdNode(IdZero, s.left), IdNode(IdZero, s.right))
       ELSE IF t.right = IdZero
            THEN LET s == IdTree_split_drop_right(t.left)
                 IN IF IsPanic(s) \/ ~IsIdNode(s) THEN Panic
                    ELSE IdNode(IdNode(s.left, IdZero), IdNode(s.right, IdZero))
            ELSE IdNode(IdNode(t.left, IdZero), IdNode(IdZero, t.right))

RECURSIVE IdTree_split(_)
IdTree_split(t) ==
  IF IsIdLeaf(t)
  THEN IF ~t.i
       THEN IdNode(IdZero, IdZero)
       ELSE IdNode(IdNode(IdOne, IdZero), IdNode(IdZero, IdOne))
  ELSE IF t.left = IdZero
       THEN LET s == IdTree_split(t.right)
            IN IF IsPanic(s) \/ ~IsIdNode(s) THEN Panic
               ELSE IdNode(IdNode(IdZero, s.left), IdNode(IdZero, s.right))
       ELSE IF t.right = IdZero
            THEN LET s == IdTree_split(t.left)
                 IN IF IsPanic(s) \/ ~IsIdNode(s) THEN Panic
                    ELSE IdNode(IdNode(s.left, IdZero), IdNode(s.right, IdZero))
            ELSE IdNode(IdNode(t.left, IdZero), IdNode(IdZero, t.right))

RECURSIVE IdTree_sum_no_norm(_, _)
IdTree_sum_no_norm(a, b) ==
  IF a = IdZero THEN b
  ELSE IF b = IdZero THEN a
  ELSE IF IsIdNode(a)
       THEN IF IsIdNode(b)
            THEN LET new_left == IdTree_sum_no_norm(a.left, b.left)
                     new_right == IdTree_sum_no_norm(a.right, b.right)
                 IN IF IsPanic(new_left) \/ IsPanic(new_right) THEN Panic
                    ELSE IdNode(new_left, new_right)
            ELSE Panic
       ELSE Panic

RECURSIVE IdTree_sum(_, _)
IdTree_sum(a, b) ==
  IF a = IdZero THEN b
  ELSE IF b = IdZero THEN a
  ELSE IF IsIdNode(a)
       THEN IF IsIdNode(b)
            THEN LET new_left == IdTree_sum(a.left, b.left)
                     new_right == IdTree_sum(a.right, b.right)
                 IN IF IsPanic(new_left) \/ IsPanic(new_right) THEN Panic
                    ELSE IdTree_norm(IdNode(new_left, new_right))
            ELSE Panic
       ELSE Panic

(***************************************************************************)
(* Cost (module cost): ordered first by the number of shifts (leaf         *)
(* expansions), then by the number of levels descended.                    *)
(***************************************************************************)
Cost_zero == [shifts |-> 0, steps |-> 0]

Cost_shift(c) == [shifts |-> c.shifts + 1, steps |-> c.steps]

Cost_add(c, k) == [shifts |-> c.shifts, steps |-> c.steps + k]

Cost_lt(c, d) == \/ c.shifts < d.shifts
                 \/ c.shifts = d.shifts /\ c.steps < d.steps

(***************************************************************************)
(* Stamp.                                                                  *)
(***************************************************************************)
Stamp_new(i, e) == [i |-> i, e |-> e]

Stamp_seed == Stamp_new(IdOne, EvZero)

Stamp_fill_all(s) ==
  IF s.i = IdZero THEN s.e ELSE EvLeaf(EventTree_max(s.e))

RECURSIVE Stamp_fill(_)
Stamp_fill(s) ==
  IF s.i = IdZero THEN s.e
  ELSE IF s.i = IdOne THEN EvLeaf(EventTree_max(s.e))
  ELSE IF IsEvLeaf(s.e) THEN s.e
  ELSE IF IsIdNode(s.i)
       THEN IF IsEvNode(s.e)
            THEN IF s.i.left = IdOne
                 THEN LET eprime_right == Stamp_fill(Stamp_new(s.i.right, s.e.right))
                      IN IF IsPanic(eprime_right) THEN Panic
                         ELSE LET new_left == EvLeaf(cmp_max(EventTree_max(s.e.left),
                                                            EventTree_min(eprime_right)))
                              IN EventTree_norm(EvNode(s.e.n, new_left, eprime_right))
                 ELSE IF s.i.right = IdOne
                      THEN LET eprime_left == Stamp_fill(Stamp_new(s.i.left, s.e.left))
                           IN IF IsPanic(eprime_left) THEN Panic
                              ELSE LET new_right == EvLeaf(cmp_max(EventTree_max(s.e.right),
                                                                  EventTree_min(eprime_left)))
                                   IN EventTree_norm(EvNode(s.e.n, eprime_left, new_right))
                      ELSE LET new_left == Stamp_fill(Stamp_new(s.i.left, s.e.left))
                               new_right == Stamp_fill(Stamp_new(s.i.right, s.e.right))
                           IN IF IsPanic(new_left) \/ IsPanic(new_right) THEN Panic
                              ELSE EventTree_norm(EvNode(s.e.n, new_left, new_right))
            ELSE Panic
       ELSE Panic

GrowResult(e, c) == [e |-> e, c |-> c]

RECURSIVE Stamp_grow_tie_left(_)
Stamp_grow_tie_left(s) ==
  IF IsEvLeaf(s.e)
  THEN IF s.i = IdOne
       THEN GrowResult(EvLeaf(s.e.n + 1), Cost_zero)
       ELSE LET g == Stamp_grow_tie_left(Stamp_new(s.i, EvNode(s.e.n, EvZero, EvZero)))
            IN IF IsPanic(g) THEN Panic ELSE GrowResult(g.e, Cost_shift(g.c))
  ELSE IF IsIdNode(s.i)
       THEN IF s.i.left = IdZero
            THEN LET g == Stamp_grow_tie_left(Stamp_new(s.i.right, s.e.right))
                 IN IF IsPanic(g) THEN Panic
                    ELSE GrowResult(EvNode(s.e.n, s.e.left, g.e), Cost_add(g.c, 1))
            ELSE IF s.i.right = IdZero
                 THEN LET g == Stamp_grow_tie_left(Stamp_new(s.i.left, s.e.left))
                      IN IF IsPanic(g) THEN Panic
                         ELSE GrowResult(EvNode(s.e.n, g.e, s.e.right), Cost_add(g.c, 1))
                 ELSE LET gr == Stamp_grow_tie_left(Stamp_new(s.i.right, s.e.right))
                          gl == Stamp_grow_tie_left(Stamp_new(s.i.left, s.e.left))
                      IN IF IsPanic(gr) \/ IsPanic(gl) THEN Panic
                         ELSE IF ~Cost_lt(gr.c, gl.c)
                              THEN GrowResult(EvNode(s.e.n, gl.e, s.e.right), Cost_add(gl.c, 1))
                              ELSE GrowResult(EvNode(s.e.n, s.e.left, gr.e), Cost_add(gr.c, 1))
       ELSE Panic

RECURSIVE Stamp_grow(_)
Stamp_grow(s) ==
  IF IsEvLeaf(s.e)
  THEN IF s.i = IdOne
       THEN GrowResult(EvLeaf(s.e.n + 1), Cost_zero)
       ELSE LET g == Stamp_grow(Stamp_new(s.i, EvNode(s.e.n, EvZero, EvZero)))
            IN IF IsPanic(g) THEN Panic ELSE GrowResult(g.e, Cost_shift(g.c))
  ELSE IF IsIdNode(s.i)
       THEN IF s.i.left = IdZero
            THEN LET g == Stamp_grow(Stamp_new(s.i.right, s.e.right))
                 IN IF IsPanic(g) THEN Panic
                    ELSE GrowResult(EvNode(s.e.n, s.e.left, g.e), Cost_add(g.c, 1))
            ELSE IF s.i.right = IdZero
                 THEN LET g == Stamp_grow(Stamp_new(s.i.left, s.e.left))
                      IN IF IsPanic(g) THEN Panic
                         ELSE GrowResult(EvNode(s.e.n, g.e, s.e.right), Cost_add(g.c, 1))
                 ELSE LET gr == Stamp_grow(Stamp_new(s.i.right, s.e.right))
                          gl == Stamp_grow(Stamp_new(s.i.left, s.e.left))
                      IN IF IsPanic(gr) \/ IsPanic(gl) THEN Panic
                         ELSE IF Cost_lt(gl.c, gr.c)
                              THEN GrowResult(EvNode(s.e.n, gl.e, s.e.right), Cost_add(gl.c, 1))
                              ELSE GrowResult(EvNode(s.e.n, s.e.left, gr.e), Cost_add(gr.c, 1))
       ELSE Panic

Stamp_leq(a, b) == EventTree_leq(a.e, b.e)

Stamp_norm(s) == Stamp_new(IdTree_norm(s.i), EventTree_norm(s.e))

Stamp_peek(s) == <<Stamp_new(IdZero, s.e), Stamp_new(s.i, s.e)>>

Stamp_fork_fresh_right(s) ==
  LET sp == IdTree_split(s.i)
  IN IF IsPanic(sp) \/ ~IsIdNode(sp) THEN Panic
     ELSE <<Stamp_new(sp.left, s.e), Stamp_new(sp.right, EvZero)>>

Stamp_fork(s) ==
  LET sp == IdTree_split(s.i)
  IN IF IsPanic(sp) \/ ~IsIdNode(sp) THEN Panic
     ELSE <<Stamp_new(sp.left, s.e), Stamp_new(sp.right, s.e)>>

Stamp_join_keep_self(a, b) ==
  LET sum_i == IdTree_sum(a.i, b.i)
  IN IF IsPanic(sum_i) THEN Panic ELSE Stamp_new(sum_i, a.e)

Stamp_join(a, b) ==
  LET sum_i == IdTree_sum(a.i, b.i)
      join_e == EventTree_join(a.e, b.e)
  IN IF IsPanic(sum_i) THEN Panic ELSE Stamp_new(sum_i, join_e)

Stamp_event_fill_only(s) ==
  LET filled_e == Stamp_fill(s)
  IN IF IsPanic(filled_e) THEN Panic ELSE Stamp_new(s.i, filled_e)

Stamp_event(s) ==
  LET filled_e == Stamp_fill(s)
  IN IF IsPanic(filled_e) THEN Panic
     ELSE IF filled_e # s.e
          THEN Stamp_new(s.i, filled_e)
          ELSE LET g == Stamp_grow(s)
               IN IF IsPanic(g) THEN Panic ELSE Stamp_new(s.i, g.e)

Stamp_send(s) ==
  LET ev == Stamp_event(s)
  IN IF IsPanic(ev) THEN Panic ELSE Stamp_peek(ev)

Stamp_receive(a, b) ==
  LET j == Stamp_join(a, b)
  IN IF IsPanic(j) THEN Panic ELSE Stamp_event(j)

Stamp_sync(a, b) ==
  LET j == Stamp_join(a, b)
  IN IF IsPanic(j) THEN Panic ELSE Stamp_fork(j)

(***************************************************************************)
(* Ownership denoted by an id tree, and the callers' precondition of join  *)
(* (the two ids own no common position).                                   *)
(***************************************************************************)
RECURSIVE IdEmpty(_)
IdEmpty(t) == IF IsIdLeaf(t) THEN ~t.i ELSE IdEmpty(t.left) /\ IdEmpty(t.right)

RECURSIVE Disjoint(_, _)
Disjoint(a, b) ==
  IF IsIdLeaf(a) THEN (a.i => IdEmpty(b))
  ELSE IF IsIdLeaf(b) THEN (b.i => IdEmpty(a))
  ELSE Disjoint(a.left, b.left) /\ Disjoint(a.right, b.right)

RECURSIVE IdSize(_)
IdSize(t) == IF IsIdLeaf(t) THEN 0 ELSE 1 + IdSize(t.left) + IdSize(t.right)

(***************************************************************************)
(* A run of a caller of the library.  Every stamp the run produced is      *)
(* kept in made together with its derivation ancestry anc, the set of      *)
(* event() applications it descends from (an application is named by the   *)
(* stamp it was applied to); live holds the stamps that no operation has   *)
(* consumed yet and nev counts the event() calls.  The library takes its   *)
(* operands by reference, so a caller may apply an operation to a stamp it *)
(* already forked, advanced or joined; reuses counts the operations of the *)
(* run that did.                                                           *)
(***************************************************************************)
St(s) == Stamp_new(s.i, s.e)

Tagged(st, anc) == [i |-> st.i, e |-> st.e, anc |-> anc]

Seed0 == Tagged(Stamp_seed, {})

RunInit ==
  /\ live = {Seed0}
  /\ made = {Seed0}
  /\ reuses = 0
  /\ nev = 0
  /\ fault = "none"

FnIdle == inp = <<>> /\ op = "none" /\ out = <<>>

Produce(consumed, new, lin) ==
  /\ Cardinality(made \cup new) <= MaxMade
  /\ lin \/ reuses < MaxReuse
  /\ live' = (live \ consumed) \cup new
  /\ made' = made \cup new
  /\ reuses' = IF lin THEN reuses ELSE reuses + 1
  /\ UNCHANGED fault

Crash(what) ==
  /\ fault' = what
  /\ UNCHANGED <<live, made, reuses>>

Fork(s) ==
  /\ fault = "none"
  /\ IdSize(s.i) < MaxForkNodes
  /\ LET r == Stamp_fork(St(s))
     IN IF IsPanic(r) THEN Crash("fork")
        ELSE Produce({s}, {Tagged(r[1], s.anc), Tagged(r[2], s.anc)}, s \in live)
  /\ UNCHANGED <<nev, fnVars>>

Peek(s) ==
  /\ fault = "none"
  /\ LET r == Stamp_peek(St(s))
     IN Produce({s}, {Tagged(r[1], s.anc), Tagged(r[2], s.anc)}, s \in live)
  /\ UNCHANGED <<nev, fnVars>>

Event(s) ==
  /\ fault = "none"
  /\ nev < MaxEvents
  /\ LET r == Stamp_event(St(s))
     IN IF IsPanic(r) THEN Crash("event") /\ UNCHANGED nev
        ELSE /\ Produce({s}, {Tagged(r, s.anc \cup {St(s)})}, s \in live)
             /\ nev' = nev + 1
  /\ UNCHANGED fnVars

Join(a, b) ==
  /\ fault = "none"
  /\ Disjoint(a.i, b.i)
  /\ LET r == Stamp_join(St(a), St(b))
     IN IF IsPanic(r) THEN Crash("join")
        ELSE Produce({a, b}, {Tagged(r, a.anc \cup b.anc)}, a \in live /\ b \in live)
  /\ UNCHANGED <<nev, fnVars>>

Send(s) ==
  /\ fault = "none"
  /\ nev < MaxEvents
  /\ LET r == Stamp_send(St(s))
     IN IF IsPanic(r) THEN Crash("send") /\ UNCHANGED nev
        ELSE /\ Produce({s}, {Tagged(r[1], s.anc \cup {St(s)}),
                              Tagged(r[2], s.anc \cup {St(s)})}, s \in live)
             /\ nev' = nev + 1
  /\ UNCHANGED fnVars

Receive(a, b) ==
  /\ fault = "none"
  /\ nev < MaxEvents
  /\ Disjoint(a.i, b.i)
  /\ LET r == Stamp_receive(St(a), St(b))
     IN IF IsPanic(r) THEN Crash("receive") /\ UNCHANGED nev
        ELSE /\ Produce({a, b}, {Tagged(r, a.anc \cup b.anc \cup {Stamp_join(St(a), St(b))})},
                        a \in live /\ b \in live)
             /\ nev' = nev + 1
  /\ UNCHANGED fnVars

Sync(a, b) ==
  /\ fault = "none"
  /\ Disjoint(a.i, b.i)
  /\ LET su == IdTree_sum(a.i, b.i)
     IN IsPanic(su) \/ IdSize(su) < MaxForkNodes
  /\ LET r == Stamp_sync(St(a), St(b))
     IN IF IsPanic(r) THEN Crash("sync")
        ELSE Produce({a, b}, {Tagged(r[1], a.anc \cup b.anc),
                              Tagged(r[2], a.anc \cup b.anc)}, a \in live /\ b \in live)
  /\ UNCHANGED <<nev, fnVars>>

Next ==
  \/ \E s \in made : Fork(s)
  \/ \E s \in made : Peek(s)
  \/ \E s \in made : Event(s)
  \/ \E a \in made, b \in made : Join(a, b)
  \/ \E s \in made : Send(s)
  \/ \E a \in made, b \in made : Receive(a, b)
  \/ \E a \in made, b \in made : Sync(a, b)

Init == RunInit /\ FnIdle

Spec == Init /\ [][Next]_vars

(***************************************************************************)
(* Bounded sets of trees.  IdTreesOfSize(k) is every id tree with k nodes  *)
(* (canonical or not); the weight of an event tree is the sum of all its   *)
(* counts plus its number of nodes, and EvTreesOfWeight(w) is every event  *)
(* tree of weight w (canonical or not).                                    *)
(***************************************************************************)
RECURSIVE IdTreesOfSize(_)
IdTreesOfSize(k) ==
  IF k = 0 THEN {IdZero, IdOne}
  ELSE UNION {{IdNode(l, r) : l \in IdTreesOfSize(j), r \in IdTreesOfSize(k - 1 - j)} :
              j \in 0..(k - 1)}

IdTreesUpTo(k) == UNION {IdTreesOfSize(j) : j \in 0..k}

CanonicalIds(k) == {t \in IdTreesUpTo(k) : IdTree_norm(t) = t}

RECURSIVE EvTreesOfWeight(_)
EvTreesOfWeight(w) ==
  {EvLeaf(w)} \cup
  UNION {UNION {{EvNode(k, l, r) : l \in EvTreesOfWeight(j),
                                   r \in EvTreesOfWeight(w - 1 - k - j)} :
                j \in 0..(w - 1 - k)} :
         k \in 0..(w - 1)}

EvTreesUpTo(w) == UNION {EvTreesOfWeight(j) : j \in 0..w}

(***************************************************************************)
(* The stamp operations as functions of one stamp.  The stamp is any       *)
(* well-formed stamp (its id tree is in canonical form, as split and sum   *)
(* keep it) with any event tree of bounded weight.                         *)
(***************************************************************************)
StampInputs == {Stamp_new(i, e) : i \in CanonicalIds(IdNodes), e \in EvTreesUpTo(MaxWeight)}

StampInit == RunInit /\ inp \in StampInputs /\ op = "none" /\ out = <<>>

Apply(name, result) ==
  /\ op = "none"
  /\ op' = name
  /\ out' = result
  /\ UNCHANGED <<inp, runVars>>

FnEvent == Apply("event", Stamp_event(inp))

FnFork == Apply("fork", Stamp_fork(inp))

FnPeek == Apply("peek", Stamp_peek(inp))

StampNext == FnEvent \/ FnFork \/ FnPeek

SpecStamp == StampInit /\ [][StampNext]_vars

(***************************************************************************)
(* C2.  event() strictly progresses: for every stamp s whose id is not the *)
(* empty ownership, s.event() returns a stamp, s.leq(s.event()) holds and  *)
(* s.event() differs from s, on the fill path and on the grow path.        *)
(***************************************************************************)
FillPath(s) == Stamp_fill(s) # s.e

C2_EventProgress ==
  (op = "event" /\ ~IdEmpty(inp.i)) =>
     /\ ~IsPanic(out)
     /\ Stamp_leq(inp, out)
     /\ out # inp

C2_Witness ==
  /\ op = "event"
  /\ IsIdNode(inp.i)
  /\ IsEvNode(inp.e)
  /\ FillPath(inp)
  /\ IsEvNode(out.e)
  /\ ~Stamp_leq(out, inp)

(***************************************************************************)
(* C3.  fork() keeps the history: both results carry an event tree         *)
(* structurally identical to the operand's, so the operand is leq both.    *)
(***************************************************************************)
C3_ForkKeepsEvents ==
  op = "fork" =>
     /\ ~IsPanic(out)
     /\ out[1].e = inp.e
     /\ out[2].e = inp.e
     /\ Stamp_leq(inp, out[1])
     /\ Stamp_leq(inp, out[2])

C3_Witness ==
  /\ op = "fork"
  /\ IsEvNode(inp.e)
  /\ IsIdNode(inp.i)
  /\ out[1].i # inp.i
  /\ out[2].i # inp.i
  /\ out[1].i # out[2].i

(***************************************************************************)
(* The tree operations as functions of one id tree and one event tree,     *)
(* canonical or not.  NormExamples are the trees of tests::norm_e_one and  *)
(* tests::norm_e_two.                                                      *)
(***************************************************************************)
NormExampleOne == EvNode(2, EvLeaf(1), EvLeaf(1))

NormExampleTwo == EvNode(2, EvNode(2, EvLeaf(1), EvLeaf(0)), EvLeaf(3))

TreeInputs ==
  {Stamp_new(i, e) : i \in IdTreesUpTo(IdNodes),
                     e \in EvTreesUpTo(MaxWeight) \cup {NormExampleOne, NormExampleTwo}}

TreeInit == RunInit /\ inp \in TreeInputs /\ op = "none" /\ out = <<>>

FnNorm == Apply("norm", Stamp_norm(inp))

SplitThenSum(i) ==
  LET sp == IdTree_split(i)
  IN [split |-> sp,
      sum |-> IF IsIdNode(sp) THEN IdTree_sum(sp.left, sp.right) ELSE Panic]

FnSplit == Apply("split", SplitThenSum(inp.i))

TreeNext == FnNorm \/ FnSplit

SpecTree == TreeInit /\ [][TreeNext]_vars

(***************************************************************************)
(* C6.  Split/sum inverse law: for every id tree i, canonical or not, if   *)
(* i.split() is Node(l, r) then l.sum(r) completes and equals i.norm(),    *)
(* and l and r own no common position.                                     *)
(***************************************************************************)
C6_SplitSumInverse ==
  (op = "split" /\ IsIdNode(out.split)) =>
     /\ ~IsPanic(out.sum)
     /\ out.sum = IdTree_norm(inp.i)
     /\ Disjoint(out.split.left, out.split.right)

C6_Witness ==
  /\ op = "split"
  /\ IsIdNode(out.split)
  /\ IsIdNode(inp.i)
  /\ IdTree_norm(inp.i) # inp.i
  /\ IsIdNode(out.sum)
  /\ ~IdEmpty(out.split.left)
  /\ ~IdEmpty(out.split.right)

(***************************************************************************)
(* The count an event tree denotes at a position of the identity space; a  *)
(* position is a path of left (0) and right (1) turns.                     *)
(***************************************************************************)
RECURSIVE EvDepth(_)
EvDepth(t) == IF IsEvLeaf(t) THEN 0 ELSE 1 + cmp_max(EvDepth(t.left), EvDepth(t.right))

Positions(d) == [1..d -> {0, 1}]

RECURSIVE CountAt(_, _, _)
CountAt(t, p, k) ==
  IF IsEvLeaf(t) THEN t.n
  ELSE t.n + CountAt(IF p[k] = 0 THEN t.left ELSE t.right, p, k + 1)

SameCounts(a, b) ==
  \A p \in Positions(cmp_max(EvDepth(a), EvDepth(b))) : CountAt(a, p, 1) = CountAt(b, p, 1)

(***************************************************************************)
(* C9.  norm is idempotent on id trees and on event trees, and the event   *)
(* norm keeps the denoted count at every position: Node(2, 1, 1) becomes   *)
(* Leaf 3 and Node(2, Node(2,1,0), 3) becomes Node(4, Node(0,1,0), 1).     *)
(***************************************************************************)
C9_NormIdempotent ==
  op = "norm" =>
     /\ IdTree_norm(out.i) = out.i
     /\ EventTree_norm(out.e) = out.e
     /\ SameCounts(inp.e, out.e)
     /\ inp.e = NormExampleOne => out.e = EvLeaf(3)
     /\ inp.e = NormExampleTwo => out.e = EvNode(4, EvNode(0, EvLeaf(1), EvLeaf(0)), EvLeaf(1))

C9_Witness ==
  /\ op = "norm"
  /\ inp.e = NormExampleTwo
  /\ out.e = EvNode(4, EvNode(0, EvLeaf(1), EvLeaf(0)), EvLeaf(1))
  /\ IsIdNode(inp.i)
  /\ out.i # inp.i
  /\ IsIdNode(out.i)

(***************************************************************************)
(* join as a function of two stamps a and b: the action evaluates          *)
(* a.join(b), b.join(a) and a.join(a).  The ids are canonical; they may    *)
(* overlap, since join does not check its precondition.                    *)
(***************************************************************************)
PairStamps == {Stamp_new(i, e) : i \in CanonicalIds(PairIdNodes), e \in EvTreesUpTo(PairWeight)}

PairInit == RunInit /\ inp \in PairStamps \X PairStamps /\ op = "none" /\ out = <<>>

FnJoin ==
  Apply("join", [ab |-> Stamp_join(inp[1], inp[2]),
                 ba |-> Stamp_join(inp[2], inp[1]),
                 aa |-> Stamp_join(inp[1], inp[1])])

PairNext == FnJoin

SpecPair == PairInit /\ [][PairNext]_vars

(***************************************************************************)
(* C4.  join dominates its operands: for two stamps s1 and s2 with         *)
(* disjoint ids, s = s1.join(s2) is a stamp with s1.leq(s) and s2.leq(s),  *)
(* whatever the shapes of the two event trees.                             *)
(***************************************************************************)
C4_JoinDominates ==
  (op = "join" /\ Disjoint(inp[1].i, inp[2].i)) =>
     /\ ~IsPanic(out.ab)
     /\ Stamp_leq(inp[1], out.ab)
     /\ Stamp_leq(inp[2], out.ab)

C4_Witness ==
  /\ op = "join"
  /\ Disjoint(inp[1].i, inp[2].i)
  /\ IsIdNode(inp[1].i) /\ IsIdNode(inp[2].i)
  /\ IsEvNode(inp[1].e) /\ IsEvNode(inp[2].e)
  /\ inp[1].e.n > inp[2].e.n
  /\ ~Stamp_leq(inp[1], inp[2]) /\ ~Stamp_leq(inp[2], inp[1])
  /\ IsEvNode(out.ab.e)

(***************************************************************************)
(* C5.  Stamp join is commutative and idempotent: a.join(b) and b.join(a)  *)
(* agree after canonicalization, and a.join(a) is a stamp whose event tree *)
(* is a's event tree after canonicalization, for every a, also one that    *)
(* owns part or all of the identity space.                                 *)
(***************************************************************************)
C5_JoinCommutes ==
  op = "join" =>
     /\ IsPanic(out.ab) <=> IsPanic(out.ba)
     /\ ~IsPanic(out.ab) => Stamp_norm(out.ab) = Stamp_norm(out.ba)

C5_JoinIdempotent ==
  op = "join" =>
     /\ ~IsPanic(out.aa)
     /\ EventTree_norm(out.aa.e) = EventTree_norm(inp[1].e)

C5_JoinCommutesIdempotent == C5_JoinCommutes /\ C5_JoinIdempotent

(***************************************************************************)
(* leq as a function of three event trees a, b and c, canonical or not.    *)
(***************************************************************************)
TripleTrees == EvTreesUpTo(TripleWeight)

TripleInit ==
  RunInit /\ inp \in TripleTrees \X TripleTrees \X TripleTrees /\ op = "none" /\ out = <<>>

FnLeq ==
  Apply("leq", [aa |-> EventTree_leq(inp[1], inp[1]),
                ab |-> EventTree_leq(inp[1], inp[2]),
                ba |-> EventTree_leq(inp[2], inp[1]),
                bc |-> EventTree_leq(inp[2], inp[3]),
                ac |-> EventTree_leq(inp[1], inp[3])])

TripleNext == FnLeq

SpecTriple == TripleInit /\ [][TripleNext]_vars

(***************************************************************************)
(* C8.  leq on event trees is a partial order up to canonical form:        *)
(* a.leq(a); a.leq(b) and b.leq(c) imply a.leq(c); a.leq(b) and b.leq(a)   *)
(* imply that a.norm() and b.norm() are equal.                             *)
(***************************************************************************)
C8_LeqPartialOrder ==
  op = "leq" =>
     /\ out.aa
     /\ (out.ab /\ out.bc) => out.ac
     /\ (out.ab /\ out.ba) => EventTree_norm(inp[1]) = EventTree_norm(inp[2])

C8_Witness ==
  /\ op = "leq"
  /\ out.ab /\ out.bc /\ out.ac /\ ~out.ba
  /\ IsEvNode(inp[1]) /\ IsEvLeaf(inp[2]) /\ IsEvNode(inp[3])
  /\ inp[1] # inp[3]

(***************************************************************************)
(* The serde mirror types.  A JSON value is a number [num |-> k] or an     *)
(* array [arr |-> <<v1, ..., vn>>].  A derived Deserialize of an untagged  *)
(* enum tries the variants in declaration order: Leaf accepts a number     *)
(* that fits the leaf's integer type, Node accepts an array with exactly   *)
(* as many elements as the variant has fields, each of which decodes; a    *)
(* value that matches no variant is a decoding error.  An id leaf is a u8  *)
(* (0..U8Max); an event count is a u32, and every number of the model is   *)
(* below 2^32, so only its sign is tested.                                 *)
(***************************************************************************)
U8Max == 255

JsonNum(k) == [num |-> k]

JsonArr(q) == [arr |-> q]

IsJsonNum(v) == DOMAIN v = {"num"}

IsJsonArr(v) == DOMAIN v = {"arr"}

DecodeError == [err |-> "data did not match any variant"]

IsErr(v) == v = DecodeError

TupleLeaf(k) == [leaf |-> k]

TupleIdNode(l, r) == [t0 |-> l, t1 |-> r]

TupleEvNode(l, k, r) == [t0 |-> l, t1 |-> k, t2 |-> r]

IsTupleLeaf(t) == DOMAIN t = {"leaf"}

RECURSIVE TupleIdTree_deserialize(_)
TupleIdTree_deserialize(v) ==
  IF IsJsonNum(v) /\ v.num >= 0 /\ v.num <= U8Max
  THEN TupleLeaf(v.num)
  ELSE IF IsJsonArr(v) /\ Len(v.arr) = 2
       THEN LET l == TupleIdTree_deserialize(v.arr[1])
                r == TupleIdTree_deserialize(v.arr[2])
            IN IF IsErr(l) \/ IsErr(r) THEN DecodeError ELSE TupleIdNode(l, r)
       ELSE DecodeError

RECURSIVE TupleEventTree_deserialize(_)
TupleEventTree_deserialize(v) ==
  IF IsJsonNum(v) /\ v.num >= 0
  THEN TupleLeaf(v.num)
  ELSE IF /\ IsJsonArr(v) /\ Len(v.arr) = 3
          /\ IsJsonNum(v.arr[2]) /\ v.arr[2].num >= 0
       THEN LET l == TupleEventTree_deserialize(v.arr[1])
                r == TupleEventTree_deserialize(v.arr[3])
            IN IF IsErr(l) \/ IsErr(r) THEN DecodeError ELSE TupleEvNode(l, v.arr[2].num, r)
       ELSE DecodeError

RECURSIVE IdTree_from(_)
IdTree_from(t) ==
  IF IsTupleLeaf(t) THEN IdLeaf(t.leaf = 1)
  ELSE IdNode(IdTree_from(t.t0), IdTree_from(t.t1))

RECURSIVE EventTree_from_swapped(_)
EventTree_from_swapped(t) ==
  IF IsTupleLeaf(t) THEN EvLeaf(t.leaf)
  ELSE EvNode(t.t1, EventTree_from_swapped(t.t2), EventTree_from_swapped(t.t0))

RECURSIVE EventTree_from(_)
EventTree_from(t) ==
  IF IsTupleLeaf(t) THEN EvLeaf(t.leaf)
  ELSE EvNode(t.t1, EventTree_from(t.t0), EventTree_from(t.t2))

Stamp_deserialize(j) ==
  LET id == TupleIdTree_deserialize(j.id)
      event == TupleEventTree_deserialize(j.event)
  IN IF IsErr(id) \/ IsErr(event) THEN DecodeError
     ELSE Stamp_new(IdTree_from(id), EventTree_from(event))

(***************************************************************************)
(* Bounded JSON values: the size of a value is its number of numbers and   *)
(* arrays.                                                                 *)
(***************************************************************************)
JsonNums == {JsonNum(k) : k \in (-1..MaxJsonNum) \cup {U8Max, U8Max + 1}}

RECURSIVE JsonOfSize(_), JsonSeqsOfSize(_)
JsonOfSize(k) ==
  IF k = 1 THEN JsonNums \cup {JsonArr(<<>>)}
  ELSE {JsonArr(q) : q \in JsonSeqsOfSize(k - 1)}

JsonSeqsOfSize(k) ==
  IF k = 0 THEN {<<>>}
  ELSE UNION {{<<v>> \o q : v \in JsonOfSize(j), q \in JsonSeqsOfSize(k - j)} : j \in 1..k}

JsonUpTo(k) == UNION {JsonOfSize(j) : j \in 1..k}

EventEncodings ==
  {JsonNum(0), JsonNum(-1),
   JsonArr(<<JsonNum(0), JsonNum(1), JsonNum(0)>>),
   JsonArr(<<JsonNum(0), JsonNum(1)>>)}

DecodeInit ==
  /\ RunInit
  /\ inp \in [id : JsonUpTo(MaxJsonSize), event : EventEncodings]
  /\ op = "none"
  /\ out = <<>>

FnDeserialize == Apply("deserialize", Stamp_deserialize(inp))

DecodeNext == FnDeserialize

SpecDecode == DecodeInit /\ [][DecodeNext]_vars

(***************************************************************************)
(* C10.  Decoding rejects invalid ownership leaf markers: an encoded stamp *)
(* whose id contains a number other than 0 or 1 is rejected with a         *)
(* decoding error.                                                         *)
(***************************************************************************)
RECURSIVE HasBadLeaf(_)
HasBadLeaf(v) ==
  IF IsJsonNum(v) THEN v.num \notin {0, 1}
  ELSE \E k \in 1..Len(v.arr) : HasBadLeaf(v.arr[k])

C10_RejectsBadLeaf ==
  (op = "deserialize" /\ HasBadLeaf(inp.id)) => IsErr(out)

(***************************************************************************)
(* Encoding: the conversions into the mirror types and their derived       *)
(* untagged Serialize (a Leaf is written as its number, a Node as the      *)
(* array of its fields in declaration order).                              *)
(***************************************************************************)
RECURSIVE TupleIdTree_from(_)
TupleIdTree_from(t) ==
  IF IsIdLeaf(t) THEN TupleLeaf(IF t.i THEN 1 ELSE 0)
  ELSE TupleIdNode(TupleIdTree_from(t.left), TupleIdTree_from(t.right))

RECURSIVE TupleEventTree_from(_)
TupleEventTree_from(t) ==
  IF IsEvLeaf(t) THEN TupleLeaf(t.n)
  ELSE TupleEvNode(TupleEventTree_from(t.left), t.n, TupleEventTree_from(t.right))

RECURSIVE TupleIdTree_serialize(_)
TupleIdTree_serialize(t) ==
  IF IsTupleLeaf(t) THEN JsonNum(t.leaf)
  ELSE JsonArr(<<TupleIdTree_serialize(t.t0), TupleIdTree_serialize(t.t1)>>)

RECURSIVE TupleEventTree_serialize(_)
TupleEventTree_serialize(t) ==
  IF IsTupleLeaf(t) THEN JsonNum(t.leaf)
  ELSE JsonArr(<<TupleEventTree_serialize(t.t0), JsonNum(t.t1),
                 TupleEventTree_serialize(t.t2)>>)

Stamp_serialize(s) ==
  [id |-> TupleIdTree_serialize(TupleIdTree_from(s.i)),
   event |-> TupleEventTree_serialize(TupleEventTree_from(s.e))]

(***************************************************************************)
(* Encoding then decoding a stamp.  The stamps are built from any id tree  *)
(* and any event tree of the bounded sets, plus the stamps of the codec    *)
(* tests (tests::empty is the seed, tests::complex).                       *)
(***************************************************************************)
CodecComplex ==
  Stamp_new(IdNode(IdNode(IdOne, IdZero), IdZero),
            EvNode(0, EvNode(1, EvLeaf(1), EvZero), EvZero))

CodecComplexJson ==
  [id |-> JsonArr(<<JsonArr(<<JsonNum(1), JsonNum(0)>>), JsonNum(0)>>),
   event |-> JsonArr(<<JsonArr(<<JsonNum(1), JsonNum(1), JsonNum(0)>>),
                       JsonNum(0), JsonNum(0)>>)]

CodecInit ==
  /\ RunInit
  /\ inp \in TreeInputs \cup {Stamp_seed, CodecComplex}
  /\ op = "none"
  /\ out = <<>>

RoundTrip(s) ==
  LET j == Stamp_serialize(s)
  IN [json |-> j, back |-> Stamp_deserialize(j)]

FnRoundTrip == Apply("roundtrip", RoundTrip(inp))

CodecNext == FnRoundTrip

SpecCodec == CodecInit /\ [][CodecNext]_vars

(***************************************************************************)
(* C11.  Codec round trip: decoding the encoding of a stamp yields a stamp *)
(* structurally equal to it; an id leaf is written 0 or 1, an id node      *)
(* [left, right], an event leaf n, an event node [left, n, right]; the     *)
(* seed is written {"id":1,"event":0}.                                     *)
(***************************************************************************)
C11_RoundTrip ==
  op = "roundtrip" =>
     /\ out.back = inp
     /\ inp = Stamp_seed => out.json = [id |-> JsonNum(1), event |-> JsonNum(0)]
     /\ inp = CodecComplex => out.json = CodecComplexJson
     /\ IsIdLeaf(inp.i) => out.json.id \in {JsonNum(0), JsonNum(1)}
     /\ IsIdNode(inp.i) => IsJsonArr(out.json.id) /\ Len(out.json.id.arr) = 2
     /\ IsEvLeaf(inp.e) => out.json.event = JsonNum(inp.e.n)
     /\ IsEvNode(inp.e) => /\ IsJsonArr(out.json.event)
                           /\ Len(out.json.event.arr) = 3
                           /\ out.json.event.arr[2] = JsonNum(inp.e.n)

C11_Witness ==
  /\ op = "roundtrip"
  /\ inp = CodecComplex
  /\ out.json = CodecComplexJson
  /\ out.back = CodecComplex

(***************************************************************************)
(* The canonical form of an event tree, stated on the tree itself: a       *)
(* node's children are canonical, one of them has base 0 (the node's base  *)
(* is the minimum of the counts below it) and they are not two equal       *)
(* leaves.                                                                 *)
(***************************************************************************)
RECURSIVE IsCanonicalEv(_)
IsCanonicalEv(t) ==
  IsEvLeaf(t) \/
    /\ IsCanonicalEv(t.left) /\ IsCanonicalEv(t.right)
    /\ cmp_min(t.left.n, t.right.n) = 0
    /\ ~(IsEvLeaf(t.left) /\ IsEvLeaf(t.right) /\ t.left.n = t.right.n)

PointwiseLeq(a, b) ==
  \A p \in Positions(cmp_max(EvDepth(a), EvDepth(b))) : CountAt(a, p, 1) <= CountAt(b, p, 1)

(***************************************************************************)
(* leq as a function of two canonical event trees (x.norm() == x): the     *)
(* action evaluates a.leq(b) and b.leq(a).                                 *)
(***************************************************************************)
CanonicalEvs(w) == {t \in EvTreesUpTo(w) : EventTree_norm(t) = t}

OrderInit ==
  /\ RunInit
  /\ inp \in CanonicalEvs(OrderWeight) \X CanonicalEvs(OrderWeight)
  /\ op = "none"
  /\ out = <<>>

FnEvLeq ==
  Apply("evleq", [ab |-> EventTree_leq(inp[1], inp[2]),
                  ba |-> EventTree_leq(inp[2], inp[1])])

OrderNext == FnEvLeq

SpecOrder == OrderInit /\ [][OrderNext]_vars

(***************************************************************************)
(* C12.  For two canonical event trees a and b, a.leq(b) is true exactly   *)
(* when the count a denotes is at most the count b denotes at every        *)
(* position; when a is a Leaf and b a Node this is the comparison of a's   *)
(* value with b's base alone.                                              *)
(***************************************************************************)
C12_LeqPointwise ==
  op = "evleq" =>
     /\ IsCanonicalEv(inp[1]) /\ IsCanonicalEv(inp[2])
     /\ out.ab = PointwiseLeq(inp[1], inp[2])
     /\ out.ba = PointwiseLeq(inp[2], inp[1])
     /\ (IsEvLeaf(inp[1]) /\ IsEvNode(inp[2])) => out.ab = (inp[1].n <= inp[2].n)

C12_Witness ==
  /\ op = "evleq"
  /\ IsEvLeaf(inp[1]) /\ IsEvNode(inp[2])
  /\ inp[1].n = inp[2].n /\ inp[1].n > 0
  /\ EvDepth(inp[2]) >= 2
  /\ out.ab /\ ~out.ba

(***************************************************************************)
(* The event-tree join as a function of two event trees, canonical or      *)
(* not.  JoinExampleLeft, JoinExampleRight and JoinExampleResult are the   *)
(* event trees of lele, lerjreel and lelejlerjreel in tests::example.      *)
(***************************************************************************)
JoinExampleLeft == EvNode(0, EvNode(1, EvLeaf(1), EvZero), EvZero)

JoinExampleRight == EvNode(1, EvZero, EvLeaf(1))

JoinExampleResult == EvNode(1, EvNode(0, EvLeaf(1), EvZero), EvLeaf(1))

EvJoinInit ==
  /\ RunInit
  /\ inp \in EvTreesUpTo(JoinWeight) \X EvTreesUpTo(JoinWeight)
  /\ op = "none"
  /\ out = <<>>

FnEvJoin == Apply("evjoin", EventTree_join(inp[1], inp[2]))

EvJoinNext == FnEvJoin

SpecEvJoin == EvJoinInit /\ [][EvJoinNext]_vars

PointwiseMax(j, a, b) ==
  \A p \in Positions(cmp_max(EvDepth(j), cmp_max(EvDepth(a), EvDepth(b)))) :
     CountAt(j, p, 1) = cmp_max(CountAt(a, p, 1), CountAt(b, p, 1))

(***************************************************************************)
(* C13.  For two event trees a and b, a.join(b) is the canonical event     *)
(* tree whose count at every position is the maximum of the counts of a    *)
(* and b there (their least upper bound under leq), also when the root     *)
(* bases differ and when one side is a leaf.                               *)
(***************************************************************************)
C13_JoinPointwiseMax ==
  op = "evjoin" =>
     /\ IsCanonicalEv(out)
     /\ EventTree_norm(out) = out
     /\ PointwiseMax(out, inp[1], inp[2])
     /\ EventTree_leq(inp[1], out) /\ EventTree_leq(inp[2], out)
     /\ inp = <<JoinExampleLeft, JoinExampleRight>> => out = JoinExampleResult

C13_Witness ==
  /\ op = "evjoin"
  /\ inp = <<JoinExampleLeft, JoinExampleRight>>
  /\ out = JoinExampleResult
  /\ inp[1].n # inp[2].n

(***************************************************************************)
(* grow as a function of one stamp (canonical id, any event tree).  On a   *)
(* stamp that fill would change, grow can meet the id Leaf 1 under an      *)
(* event Node and reach unreachable!(); event calls it after fill only.    *)
(* GrowExample is the stamp with id ((1,0),(0,1)) and history Leaf 0.      *)
(***************************************************************************)
GrowExample ==
  Stamp_new(IdNode(IdNode(IdOne, IdZero), IdNode(IdZero, IdOne)), EvZero)

GrowExampleResult == EvNode(0, EvZero, EvNode(0, EvZero, EvLeaf(1)))

GrowInit == RunInit /\ inp \in StampInputs /\ op = "none" /\ out = <<>>

FnGrow == Apply("grow", Stamp_grow(inp))

GrowNext == FnGrow

SpecGrow == GrowInit /\ [][GrowNext]_vars

\* The node grow descends into: a Leaf n is first expanded to Node(n, 0, 0).
GrowNode(s) == IF IsEvLeaf(s.e) THEN EvNode(s.e.n, EvZero, EvZero) ELSE s.e

BothOwned(i) == IsIdNode(i) /\ i.left # IdZero /\ i.right # IdZero

(***************************************************************************)
(* C14.  Tie-break of grow: when both children of the id own something     *)
(* and growing the left and the right subtree cost the same, the right     *)
(* subtree is grown and the left one is unchanged; the left subtree is     *)
(* grown only when its cost is strictly smaller.  event on the id          *)
(* ((1,0),(0,1)) with history Leaf 0 gives Node(0, 0, Node(0, 0, 1)).      *)
(***************************************************************************)
C14_TieGrowsRight ==
  (op = "grow" /\ BothOwned(inp.i) /\ ~IsPanic(out)) =>
     LET e == GrowNode(inp)
         gl == Stamp_grow(Stamp_new(inp.i.left, e.left))
         gr == Stamp_grow(Stamp_new(inp.i.right, e.right))
     IN /\ ~IsPanic(gl) /\ ~IsPanic(gr)
        /\ gl.c = gr.c => (out.e = EvNode(e.n, e.left, gr.e) /\ gr.e # e.right)
        /\ out.e.left # e.left =>
              (Cost_lt(gl.c, gr.c) /\ out.e = EvNode(e.n, gl.e, e.right))
        /\ inp = GrowExample =>
              (out.e = GrowExampleResult /\ Stamp_event(inp).e = GrowExampleResult)

C14_Witness ==
  /\ op = "grow"
  /\ inp = GrowExample
  /\ out.e = GrowExampleResult
  /\ Stamp_grow(Stamp_new(inp.i.left, EvZero)).c = Stamp_grow(Stamp_new(inp.i.right, EvZero)).c

(***************************************************************************)
(* C1.  Causality: for every two stamps a and b the run produced,          *)
(* a.leq(b) is true exactly when every event() application in the          *)
(* ancestry of a is in the ancestry of b.                                  *)
(***************************************************************************)
LeqIsAncestry ==
  \A a \in made, b \in made : Stamp_leq(St(a), St(b)) <=> (a.anc \subseteq b.anc)

C1_AnyRun == LeqIsAncestry

Linear == reuses = 0

C1_LinearRun == Linear => LeqIsAncestry

C1_Witness ==
  /\ Linear
  /\ \E a \in made, b \in made :
        /\ a.anc # {} /\ b.anc # {}
        /\ ~Stamp_leq(St(a), St(b)) /\ ~Stamp_leq(St(b), St(a))
  /\ \E a \in made, b \in made :
        /\ a.anc # {} /\ a.anc # b.anc /\ Stamp_leq(St(a), St(b))

(***************************************************************************)
(* C7.  The stamp operations are total on the stamps of a run: fork, peek, *)
(* event, join with a disjoint stamp and leq return a result on every      *)
(* stamp the run produced, the empty-ownership reader of peek included,    *)
(* and no call reaches unreachable!().                                     *)
(***************************************************************************)
C7_OperationsTotal ==
  /\ fault = "none"
  /\ \A s \in made :
        /\ ~IsPanic(Stamp_fork(St(s)))
        /\ ~IsPanic(Stamp_peek(St(s)))
        /\ ~IsPanic(Stamp_event(St(s)))
        /\ \A t \in made :
              /\ Stamp_leq(St(s), St(t)) \in BOOLEAN
              /\ Disjoint(s.i, t.i) => ~IsPanic(Stamp_join(St(s), St(t)))

(***************************************************************************)
(* C15.  Every stamp a run produces from the seed by fork, peek, event (on *)
(* a non-empty id) and join (of disjoint ids) has a canonical id tree and  *)
(* a canonical event tree (x.norm() == x), although split and grow do not  *)
(* call norm.                                                              *)
(***************************************************************************)
IsCanonicalStamp(s) ==
  /\ Stamp_norm(s) = s
  /\ IsCanonicalEv(s.e)

C15_ReachableCanonical == \A s \in made : IsCanonicalStamp(St(s))

C15_Witness ==
  /\ C15_ReachableCanonical
  /\ \E s \in made :
        /\ IsIdNode(s.i) /\ IsEvNode(s.e)
        /\ \E t \in s.anc : /\ t.i = s.i /\ IsEvNode(t.e)
                            /\ Stamp_fill(t) = t.e
                            /\ Stamp_event(t) = St(s)
  /\ \E s \in made : s.anc # {} /\ s.i = IdOne

(***************************************************************************)
(* Ownership of a position of the identity space by an id tree.            *)
(***************************************************************************)
RECURSIVE IdDepth(_)
IdDepth(t) == IF IsIdLeaf(t) THEN 0 ELSE 1 + cmp_max(IdDepth(t.left), IdDepth(t.right))

RECURSIVE Owns(_, _, _)
Owns(t, p, k) ==
  IF IsIdLeaf(t) THEN t.i
  ELSE Owns(IF p[k] = 0 THEN t.left ELSE t.right, p, k + 1)

LivePositions ==
  LET depths == {IdDepth(s.i) : s \in live}
  IN Positions(CHOOSE d \in depths : \A x \in depths : x <= d)

(***************************************************************************)
(* C16.  In the run where fork replaces a live stamp by its two results,   *)
(* join replaces two live stamps by its result, event replaces a live      *)
(* stamp by its result and peek adds its reader, the ids of the live       *)
(* stamps are pairwise disjoint and together own the whole identity space: *)
(* every position has exactly one owner among the live stamps.             *)
(***************************************************************************)
C16_LivePartition ==
  Linear =>
     /\ \A a \in live, b \in live : a.i # b.i => Disjoint(a.i, b.i)
     /\ \A a \in live, b \in live : (a.i = b.i /\ a # b) => IdEmpty(a.i)
     /\ \A p \in LivePositions :
           /\ \E s \in live : Owns(s.i, p, 1)
           /\ \A a \in live, b \in live : (Owns(a.i, p, 1) /\ Owns(b.i, p, 1)) => a = b

C16_Witness ==
  /\ Linear
  /\ \E a \in live, b \in live : a # b /\ ~IdEmpty(a.i) /\ ~IdEmpty(b.i)
  /\ \E j \in live : \E a \in made \ live, b \in made \ live :
        /\ ~IdEmpty(a.i) /\ ~IdEmpty(b.i) /\ Disjoint(a.i, b.i)
        /\ a.anc # b.anc
        /\ St(j) = Stamp_join(St(a), St(b))

(***************************************************************************)
(* C17.  Frame of event: for a canonical stamp s with a non-empty id,      *)
(* s.event() has the id tree of s, its event tree denotes the count of s   *)
(* at every position the id of s does not own, and at the positions s owns *)
(* the count only increases, on the fill path and on the grow path.        *)
(***************************************************************************)
EventPositions(s, r) ==
  Positions(cmp_max(IdDepth(s.i), cmp_max(EvDepth(s.e), EvDepth(r.e))))

C17_EventFrame ==
  (op = "event" /\ ~IdEmpty(inp.i) /\ IsCanonicalStamp(inp)) =>
     /\ ~IsPanic(out)
     /\ out.i = inp.i
     /\ \A p \in EventPositions(inp, out) :
           IF Owns(inp.i, p, 1)
           THEN CountAt(out.e, p, 1) >= CountAt(inp.e, p, 1)
           ELSE CountAt(out.e, p, 1) = CountAt(inp.e, p, 1)
     /\ \E p \in EventPositions(inp, out) :
           Owns(inp.i, p, 1) /\ CountAt(out.e, p, 1) > CountAt(inp.e, p, 1)

C17_Witness ==
  /\ op = "event"
  /\ IsCanonicalStamp(inp)
  /\ FillPath(inp)
  /\ IsIdNode(inp.i) /\ IsEvNode(out.e)
  /\ \E p \in EventPositions(inp, out) :
        ~Owns(inp.i, p, 1) /\ CountAt(inp.e, p, 1) > inp.e.n
  /\ \E p \in EventPositions(inp, out) :
        Owns(inp.i, p, 1) /\ CountAt(out.e, p, 1) > CountAt(inp.e, p, 1) + 1

====
